---- MODULE Spec2Model ----
(***************************************************************************)
(* Telemetry line interpreter of the Collision dashboard.                  *)
(*                                                                         *)
(* Two variants of the application are modelled:                           *)
(*   "App"      src/App.tsx            (BLE handler handleData)            *)
(*   "Part000"  src/unnamed/part_000   (processLine, fuzzy parsing)        *)
(*                                                                         *)
(* A line is a sequence of one-character strings.  Regular expressions are *)
(* evaluated on these sequences with JavaScript's leftmost, greedy         *)
(* semantics; parseFloat and parseInt are computed digit by digit.         *)
(* Numbers are fixed-point: a value x is the integer x * Unit, and NaN is  *)
(* a separate value that compares false with everything.                   *)
(*                                                                         *)
(* Four specifications share the variables:                                *)
(*   Spec      the interpreter driven line by line with a wide vocabulary  *)
(*   LogSpec   addLog called again and again (the log ring)                *)
(*   LinkSpec  the transports and controls: connectSerial with its read    *)
(*             loop, connectBluetooth and its listeners, the simulator     *)
(*   FormsSpec the interpreter driven with the GPS forms: labels in either *)
(*             order, one label only, labels next to a comma pair          *)
(***************************************************************************)
EXTENDS Integers, Sequences, FiniteSets, TLC

VARIABLES
  variant,    \* which application is running: "App" or "Part000"
  bikeState,  \* the BikeState held by useState
  logs,       \* the log lines held by useState, newest first
  now,        \* Date.now(), a logical clock
  lastLine,   \* history: the text handed to the last handler call
  prevState,  \* history: bikeState before the last step that carried text
  isConnecting,     \* useState flag of the connect functions
  isSimulating,     \* useState flag of the simulator (part_000)
  permissionError,  \* useState<string | null> (part_000)
  connectionMode,   \* "SERIAL" or "BLE" (part_000)
  pc,         \* the await at which the running connect function is suspended
  buffer,     \* connectSerial's local buffer
  readPos,    \* how many characters of SerialStream the reader has returned
  ble,        \* the peripheral: "none", "notifying" or "gone"
  simTimer,   \* the interval of toggleSimulation is armed
  attempts,   \* history: how often the connect control was clicked
  logged,     \* history: number of addLog calls so far
  prevLogs,   \* history: logs before the last step that carried text
  delivered,  \* history: [src, line] of every call a transport made of the interpreter
  serialFrom, \* history: Len(delivered) when the serial port was opened
  linkLost,   \* history: how the established transport stopped, or "no"
  lastEvent   \* history: [src, lines], the texts the last step's transport event carried

\* the state the interpreter works on
coreVars == <<variant, bikeState, logs, now, lastLine, prevState>>
\* the state of the transports and of the controls
linkVars ==
  <<isConnecting, isSimulating, permissionError, connectionMode, pc, buffer,
    readPos, ble, simTimer, attempts, delivered, serialFrom, linkLost>>
vars == <<coreVars, linkVars, logged, prevLogs, lastEvent>>

(***************************************************************************)
(* Bounds of the model.                                                    *)
(***************************************************************************)
MaxLines == 2      \* handler calls per behaviour
MaxLogCalls == 52  \* addLog calls per behaviour of LogSpec
MaxAttempts == 1   \* clicks on the connect button of part_000 per behaviour
MaxPairings == 2   \* clicks on the pair button of App.tsx per behaviour
MaxChunk == 7      \* characters one reader.read() returns at most
FracDigits == 5    \* fractional decimal digits kept by the fixed point

Unit == 10 ^ FracDigits

(***************************************************************************)
(* Numbers.                                                                *)
(***************************************************************************)
Num(v) == [nan |-> FALSE, v |-> v]
NaN == [nan |-> TRUE, v |-> 0]

Lt(a, b) == ~a.nan /\ ~b.nan /\ a.v < b.v
Gt(a, b) == ~a.nan /\ ~b.nan /\ a.v > b.v
Abs(a) == IF a.nan THEN NaN ELSE Num(IF a.v < 0 THEN -a.v ELSE a.v)

(***************************************************************************)
(* Characters.                                                             *)
(***************************************************************************)
DigitChars == <<"0", "1", "2", "3", "4", "5", "6", "7", "8", "9">>
Digit == {DigitChars[i] : i \in 1..10}
\* the characters trim() strips and \\s matches, as far as the wire carries them
Space == {" ", "\t", "\n", "\r"}
SepClass == {":", "="} \cup Space
DigitDot == Digit \cup {"."}
DigitDotMinus == Digit \cup {".", "-"}

Upper == <<"A", "B", "C", "D", "E", "F", "G", "H", "I", "J", "K", "L", "M",
           "N", "O", "P", "Q", "R", "S", "T", "U", "V", "W", "X", "Y", "Z">>
LowerOf == <<"a", "b", "c", "d", "e", "f", "g", "h", "i", "j", "k", "l", "m",
             "n", "o", "p", "q", "r", "s", "t", "u", "v", "w", "x", "y", "z">>

ToLower(c) ==
  IF \E i \in 1..26 : Upper[i] = c
    THEN LowerOf[CHOOSE i \in 1..26 : Upper[i] = c]
    ELSE c

MinOf(S) == CHOOSE x \in S : \A y \in S : x <= y
MaxOf(S) == CHOOSE x \in S : \A y \in S : x >= y

\* String.prototype.trim
Trim(s) ==
  LET keep == {i \in 1..Len(s) : s[i] \notin Space}
  IN IF keep = {} THEN <<>> ELSE SubSeq(s, MinOf(keep), MaxOf(keep))

\* First index at or after i whose character is outside class C (greedy run).
RunEnd(s, i, C) ==
  CHOOSE j \in i..(Len(s) + 1) :
    /\ \A k \in i..(j - 1) : s[k] \in C
    /\ (j = Len(s) + 1 \/ s[j] \notin C)

\* The literal lit occurs in s at position p (ci: ignoring letter case).
LitAt(s, p, lit, ci) ==
  /\ p + Len(lit) - 1 <= Len(s)
  /\ \A k \in 1..Len(lit) :
       IF ci THEN ToLower(s[p + k - 1]) = ToLower(lit[k])
             ELSE s[p + k - 1] = lit[k]

(***************************************************************************)
(* parseInt and parseFloat.                                                *)
(***************************************************************************)
DigitVal(c) == (CHOOSE i \in 1..10 : DigitChars[i] = c) - 1

RECURSIVE DigitsVal(_)
DigitsVal(ds) ==
  IF ds = <<>> THEN 0
  ELSE 10 * DigitsVal(SubSeq(ds, 1, Len(ds) - 1)) + DigitVal(ds[Len(ds)])

\* Value, in units, of the fractional digits fs (digits past FracDigits are
\* dropped).
RECURSIVE FracVal(_, _)
FracVal(fs, k) ==
  IF fs = <<>> \/ k > FracDigits THEN 0
  ELSE DigitVal(fs[1]) * (10 ^ (FracDigits - k)) + FracVal(Tail(fs), k + 1)

\* parseInt on a capture of \d+ : the leading run of digits.
ParseInt(s) == DigitsVal(SubSeq(s, 1, RunEnd(s, 1, Digit) - 1))

\* the number with integer digits ds and fractional digits fs; NaN when the
\* literal has no digit at all
Magnitude(ds, fs) ==
  IF ds = <<>> /\ fs = <<>> THEN NaN
  ELSE Num(DigitsVal(ds) * Unit + FracVal(fs, 1))

\* digits [. digits]  or  . digits, where the digits run from i0 to i1 - 1
StrDecimalFrom(s, i0, i1) ==
  IF i1 <= Len(s) /\ s[i1] = "."
    THEN Magnitude(SubSeq(s, i0, i1 - 1),
                   SubSeq(s, i1 + 1, RunEnd(s, i1 + 1, Digit) - 1))
    ELSE Magnitude(SubSeq(s, i0, i1 - 1), <<>>)

Negate(x) == IF x.nan THEN x ELSE Num(-x.v)

\* parseFloat: the longest prefix that is a decimal literal
\* [+-] digits [. digits]  or  [+-] . digits ; NaN when there is none.
\* (Exponents, "Infinity" and leading blanks cannot occur in a capture of
\* [\d.-]+ and are not modelled.)
ParseFloat(s) ==
  IF Len(s) >= 1 /\ s[1] = "-"
    THEN Negate(StrDecimalFrom(s, 2, RunEnd(s, 2, Digit)))
  ELSE IF Len(s) >= 1 /\ s[1] = "+"
    THEN StrDecimalFrom(s, 2, RunEnd(s, 2, Digit))
  ELSE StrDecimalFrom(s, 1, RunEnd(s, 1, Digit))

(***************************************************************************)
(* Regular expressions.  A match is [ok, g1, g2]; in every pattern below   *)
(* adjacent quantified classes are disjoint, so the greedy run is the only *)
(* way each quantifier can match and no backtracking inside an attempt     *)
(* changes the result.  An attempt at one position is written as a chain   *)
(* of operators, one per part of the pattern, each handed the positions    *)
(* found so far.  FirstMatch gives the leftmost attempt that works.        *)
(***************************************************************************)
NoMatch == [ok |-> FALSE, g1 |-> <<>>, g2 |-> <<>>]
Match(a, b) == [ok |-> TRUE, g1 |-> a, g2 |-> b]

\* the first successful match of a sequence of attempts
FirstOk(results) ==
  IF \E i \in 1..Len(results) : results[i].ok
    THEN results[MinOf({i \in 1..Len(results) : results[i].ok})]
    ELSE NoMatch

\* src/App.tsx  /ID (\d+): Distance = ([\d.]+) cm/
\*   ...([\d.]+) cm   with the id in q..r-1 and the distance in u..v-1
StrictSensorDist(s, q, r, u, v) ==
  IF v > u /\ LitAt(s, v, <<" ", "c", "m">>, FALSE)
    THEN Match(SubSeq(s, q, r - 1), SubSeq(s, u, v - 1))
    ELSE NoMatch

\*   ...(\d+): Distance = ...   with the id in q..r-1
StrictSensorId(s, q, r) ==
  IF r > q /\ LitAt(s, r, <<":", " ", "D", "i", "s", "t", "a", "n", "c", "e",
                            " ", "=", " ">>, FALSE)
    THEN StrictSensorDist(s, q, r, r + 13, RunEnd(s, r + 13, DigitDot))
    ELSE NoMatch

StrictSensorAt(s, p) ==
  IF LitAt(s, p, <<"I", "D", " ">>, FALSE)
    THEN StrictSensorId(s, p + 3, RunEnd(s, p + 3, Digit))
    ELSE NoMatch

\* src/App.tsx  /Lat: ([\d.-]+)\s+Lng: ([\d.-]+)/
\*   ...Lng: ([\d.-]+)   with the latitude in q..r-1 and "Lng: " at w
StrictGpsLng(s, q, r, w, v) ==
  IF v > w + 5 THEN Match(SubSeq(s, q, r - 1), SubSeq(s, w + 5, v - 1))
  ELSE NoMatch

\*   ...\s+Lng: ...   with the blanks in r..w-1
StrictGpsSep(s, q, r, w) ==
  IF w > r /\ LitAt(s, w, <<"L", "n", "g", ":", " ">>, FALSE)
    THEN StrictGpsLng(s, q, r, w, RunEnd(s, w + 5, DigitDotMinus))
    ELSE NoMatch

\*   ...([\d.-]+)...   with the latitude in q..r-1
StrictGpsLat(s, q, r) ==
  IF r > q THEN StrictGpsSep(s, q, r, RunEnd(s, r, Space)) ELSE NoMatch

StrictGpsAt(s, p) ==
  IF LitAt(s, p, <<"L", "a", "t", ":", " ">>, FALSE)
    THEN StrictGpsLat(s, p + 5, RunEnd(s, p + 5, DigitDotMinus))
    ELSE NoMatch

\* part_000  /(?:ID|Sensor|S)\s*(\d+)[:\s=]+([\d.]+)/i  after the keyword
\*   ...([\d.]+)   with the id in q..r-1 and the distance in u..v-1
FuzzySensorDist(s, q, r, u, v) ==
  IF v > u THEN Match(SubSeq(s, q, r - 1), SubSeq(s, u, v - 1)) ELSE NoMatch

\*   ...[:\s=]+...   with the separators in r..u-1
FuzzySensorSep(s, q, r, u) ==
  IF u > r THEN FuzzySensorDist(s, q, r, u, RunEnd(s, u, DigitDot))
  ELSE NoMatch

\*   ...(\d+)...   with the id in q..r-1
FuzzySensorId(s, q, r) ==
  IF r > q THEN FuzzySensorSep(s, q, r, RunEnd(s, r, SepClass)) ELSE NoMatch

\*   \s*...   with the blanks in e..q-1
FuzzySensorBlank(s, q) == FuzzySensorId(s, q, RunEnd(s, q, Digit))

FuzzySensorRest(s, e) == FuzzySensorBlank(s, RunEnd(s, e, Space))

\* part_000  [:\s=]+([\d.-]+)  after the keyword
\*   ...([\d.-]+)   with the separators in e..u-1 and the number in u..v-1
LabelNumber(s, e, u, v) ==
  IF u > e /\ v > u THEN Match(SubSeq(s, u, v - 1), <<>>) ELSE NoMatch

LabelSep(s, e, u) == LabelNumber(s, e, u, RunEnd(s, u, DigitDotMinus))

LabelRest(s, e) == LabelSep(s, e, RunEnd(s, e, SepClass))

\* the part of a part_000 pattern that follows its keyword
RestAt(kind, s, e) ==
  IF kind = "sensor" THEN FuzzySensorRest(s, e) ELSE LabelRest(s, e)

\* (?:a|b|c)rest : the first alternative, in order, after which rest matches
FirstAlt(s, p, alts, ci, kind) ==
  FirstOk([i \in 1..Len(alts) |->
             IF LitAt(s, p, alts[i], ci)
               THEN RestAt(kind, s, p + Len(alts[i]))
               ELSE NoMatch])

\* part_000  /(?:ID|Sensor|S)\s*(\d+)[:\s=]+([\d.]+)/i
FuzzySensorAt(s, p) ==
  FirstAlt(s, p, << <<"I", "D">>, <<"S", "e", "n", "s", "o", "r">>, <<"S">> >>,
           TRUE, "sensor")

\* part_000  /(?:Lat|Latitude|GPS)[:\s=]+([\d.-]+)/i
LatAt(s, p) ==
  FirstAlt(s, p, << <<"L", "a", "t">>,
                    <<"L", "a", "t", "i", "t", "u", "d", "e">>,
                    <<"G", "P", "S">> >>, TRUE, "label")

\* part_000  /(?:Lng|Longitude|Lon)[:\s=]+([\d.-]+)/i
LngAt(s, p) ==
  FirstAlt(s, p, << <<"L", "n", "g">>,
                    <<"L", "o", "n", "g", "i", "t", "u", "d", "e">>,
                    <<"L", "o", "n">> >>, TRUE, "label")

\* -?\d+\.\d+ : end of the match whose digits start at a, 0 when there is none
\*   \d+\.\d+   with the integer digits in a..b-1
DecimalFraction(s, a, b) ==
  IF b > a /\ b <= Len(s) /\ s[b] = "." /\ RunEnd(s, b + 1, Digit) > b + 1
    THEN RunEnd(s, b + 1, Digit) ELSE 0

DecimalDigits(s, a) == DecimalFraction(s, a, RunEnd(s, a, Digit))

SignedDecimalEnd(s, p) ==
  IF p <= Len(s) /\ s[p] = "-" THEN DecimalDigits(s, p + 1)
  ELSE DecimalDigits(s, p)

\* part_000  /(-?\d+\.\d+),\s*(-?\d+\.\d+)/
\*   ...(-?\d+\.\d+)   with the second number in w..e2-1
CommaGpsSecond(s, p, e1, w, e2) ==
  IF e2 > 0 THEN Match(SubSeq(s, p, e1 - 1), SubSeq(s, w, e2 - 1))
  ELSE NoMatch

\*   ...,\s*...   with the blanks ending at w
CommaGpsBlank(s, p, e1, w) ==
  IF w <= Len(s) THEN CommaGpsSecond(s, p, e1, w, SignedDecimalEnd(s, w))
  ELSE NoMatch

\*   (-?\d+\.\d+),...   with the first number in p..e1-1
CommaGpsFirst(s, p, e1) ==
  IF e1 > 0 /\ e1 <= Len(s) /\ s[e1] = ","
    THEN CommaGpsBlank(s, p, e1, RunEnd(s, e1 + 1, Space))
    ELSE NoMatch

CommaGpsAt(s, p) == CommaGpsFirst(s, p, SignedDecimalEnd(s, p))

\* one attempt of pattern pat at position p
MatchAt(pat, s, p) ==
  CASE pat = "StrictSensor" -> StrictSensorAt(s, p)
    [] pat = "StrictGps" -> StrictGpsAt(s, p)
    [] pat = "FuzzySensor" -> FuzzySensorAt(s, p)
    [] pat = "Lat" -> LatAt(s, p)
    [] pat = "Lng" -> LngAt(s, p)
    [] pat = "CommaGps" -> CommaGpsAt(s, p)

\* String.prototype.match: the leftmost position where an attempt succeeds
FirstMatch(s, pat) == FirstOk([p \in 1..Len(s) |-> MatchAt(pat, s, p)])

(***************************************************************************)
(* Program constants.                                                      *)
(***************************************************************************)
ThresholdCm == 150
SentinelCm == 999
LogCapApp == 10
LogCapPart000 == 50

threshold == ThresholdCm * Unit
Epsilon == Unit \div 10000        \* 0.0001

\* decoded text of a notification that carries no value
Null == <<"null">>
\* permissionError === null
NoError == "null"

(***************************************************************************)
(* State updates shared by the two variants.                               *)
(***************************************************************************)
\* variant of IsDanger without the lower bound
IsDanger_NoLowerBound(distance) == Lt(distance, Num(threshold))

IsDanger(distance) == Lt(distance, Num(threshold)) /\ Gt(distance, Num(0))

\* setBikeState(prev => ...) of a sensor reading
\* variant: a reading is replaced only by a closer one
SensorUpdater_KeepCloser(prev, id, distance, t) ==
  [prev EXCEPT
     !.sensors = [k \in (DOMAIN prev.sensors) \cup {id} |->
                    IF k = id
                      THEN [id |-> id,
                            distance |-> IF id \in DOMAIN prev.sensors
                                              /\ Lt(prev.sensors[id].distance,
                                                    distance)
                                           THEN prev.sensors[id].distance
                                           ELSE distance,
                            lastUpdate |-> t]
                      ELSE prev.sensors[k]],
     !.leftDanger = IF id = 1 THEN IsDanger(distance) ELSE @,
     !.rightDanger = IF id = 2 THEN IsDanger(distance) ELSE @,
     !.backDanger = IF id = 3 THEN IsDanger(distance) ELSE @]

\* variant: the flags are computed from the reading being replaced
SensorUpdater_StaleFlag(prev, id, distance, t) ==
  [prev EXCEPT
     !.sensors = [k \in (DOMAIN prev.sensors) \cup {id} |->
                    IF k = id
                      THEN [id |-> id, distance |-> distance, lastUpdate |-> t]
                      ELSE prev.sensors[k]],
     !.leftDanger = IF id = 1 THEN IsDanger(prev.sensors[1].distance) ELSE @,
     !.rightDanger = IF id = 2 THEN IsDanger(prev.sensors[2].distance) ELSE @,
     !.backDanger = IF id = 3 THEN IsDanger(prev.sensors[3].distance) ELSE @]

SensorUpdater(prev, id, distance, t) ==
  [prev EXCEPT
     !.sensors = [k \in (DOMAIN prev.sensors) \cup {id} |->
                    IF k = id
                      THEN [id |-> id, distance |-> distance, lastUpdate |-> t]
                      ELSE prev.sensors[k]],
     !.leftDanger = IF id = 1 THEN IsDanger(distance) ELSE @,
     !.rightDanger = IF id = 2 THEN IsDanger(distance) ELSE @,
     !.backDanger = IF id = 3 THEN IsDanger(distance) ELSE @]

\* variant of GpsUpdater that merges into the previous fix
GpsUpdater_Merge(prev, lat, lng, valid, t) ==
  [prev EXCEPT !.gps = [lat |-> lat, lng |-> lng,
                        valid |-> prev.gps.valid \/ valid,
                        lastUpdate |-> t]]

\* variant of GpsUpdater that also lowers the danger flags
GpsUpdater_ClearFlags(prev, lat, lng, valid, t) ==
  [prev EXCEPT !.gps = [lat |-> lat, lng |-> lng, valid |-> valid,
                        lastUpdate |-> t],
               !.leftDanger = FALSE, !.rightDanger = FALSE,
               !.backDanger = FALSE]

\* setBikeState(prev => ({...prev, gps: {...}}))
GpsUpdater(prev, lat, lng, valid, t) ==
  [prev EXCEPT !.gps = [lat |-> lat, lng |-> lng, valid |-> valid,
                        lastUpdate |-> t]]

\* variant: a full log keeps what it has and drops the new message
addLog_KeepOldest(prev, msg, cap) ==
  IF Len(prev) < cap THEN <<msg>> \o prev ELSE prev

addLog(prev, msg, cap) ==
  LET all == <<msg>> \o prev
  IN SubSeq(all, 1, IF Len(all) < cap THEN Len(all) ELSE cap)

(***************************************************************************)
(* src/App.tsx : handleData                                                *)
(***************************************************************************)
\* lines 54-72
HandleDataSensorMatch(sensorMatch, prev, t) ==
  IF sensorMatch.ok
    THEN SensorUpdater(prev, ParseInt(sensorMatch.g1),
                       ParseFloat(sensorMatch.g2), t)
    ELSE prev

HandleDataSensor(line, prev, t) ==
  HandleDataSensorMatch(FirstMatch(line, "StrictSensor"), prev, t)

\* lines 75-85
HandleDataGpsMatch(gpsMatch, prev, t) ==
  IF gpsMatch.ok
    THEN GpsUpdater(prev, ParseFloat(gpsMatch.g1), ParseFloat(gpsMatch.g2),
                    TRUE, t)
    ELSE prev

HandleDataGps(line, prev, t) ==
  HandleDataGpsMatch(FirstMatch(line, "StrictGps"), prev, t)

\* the text that handleData logs and parses, <<>> when it returns early
HandleDataLine(value) == IF value = Null THEN <<>> ELSE Trim(value)

handleData(value, prev, t) ==
  IF HandleDataLine(value) = <<>> THEN prev
  ELSE HandleDataGps(HandleDataLine(value),
                     HandleDataSensor(HandleDataLine(value), prev, t), t)

(***************************************************************************)
(* src/unnamed/part_000 : processLine                                      *)
(***************************************************************************)
\* lines 46-66
ProcessLineSensorMatch(sensorMatch, id, prev, t) ==
  IF sensorMatch.ok /\ id >= 1 /\ id <= 3
    THEN SensorUpdater(prev, id, ParseFloat(sensorMatch.g2), t)
    ELSE prev

ProcessLineSensorId(sensorMatch, prev, t) ==
  IF sensorMatch.ok
    THEN ProcessLineSensorMatch(sensorMatch, ParseInt(sensorMatch.g1), prev, t)
    ELSE prev

ProcessLineSensor(cleanLine, prev, t) ==
  ProcessLineSensorId(FirstMatch(cleanLine, "FuzzySensor"), prev, t)

\* variant of GpsFound that forgets the found flag
GpsFound_Always(latMatch, lngMatch, commaGpsMatch) ==
  IF latMatch.ok /\ lngMatch.ok
    THEN [found |-> TRUE, lat |-> ParseFloat(latMatch.g1),
          lng |-> ParseFloat(lngMatch.g1)]
  ELSE IF commaGpsMatch.ok
    THEN [found |-> TRUE, lat |-> ParseFloat(commaGpsMatch.g1),
          lng |-> ParseFloat(commaGpsMatch.g2)]
  ELSE [found |-> TRUE, lat |-> Num(0), lng |-> Num(0)]

\* variant of GpsFound that tries the comma pair before the labels
GpsFound_PairFirst(latMatch, lngMatch, commaGpsMatch) ==
  IF commaGpsMatch.ok
    THEN [found |-> TRUE, lat |-> ParseFloat(commaGpsMatch.g1),
          lng |-> ParseFloat(commaGpsMatch.g2)]
  ELSE IF latMatch.ok /\ lngMatch.ok
    THEN [found |-> TRUE, lat |-> ParseFloat(latMatch.g1),
          lng |-> ParseFloat(lngMatch.g1)]
  ELSE [found |-> FALSE, lat |-> Num(0), lng |-> Num(0)]

\* [found, lat, lng] as computed by lines 73-83
GpsFound(latMatch, lngMatch, commaGpsMatch) ==
  IF latMatch.ok /\ lngMatch.ok
    THEN [found |-> TRUE, lat |-> ParseFloat(latMatch.g1),
          lng |-> ParseFloat(lngMatch.g1)]
  ELSE IF commaGpsMatch.ok
    THEN [found |-> TRUE, lat |-> ParseFloat(commaGpsMatch.g1),
          lng |-> ParseFloat(commaGpsMatch.g2)]
  ELSE [found |-> FALSE, lat |-> Num(0), lng |-> Num(0)]

\* lines 69-83
FuzzyGps(cleanLine) ==
  GpsFound(FirstMatch(cleanLine, "Lat"), FirstMatch(cleanLine, "Lng"),
           FirstMatch(cleanLine, "CommaGps"))

hasFix(lat, lng) ==
  Gt(Abs(lat), Num(Epsilon)) \/ Gt(Abs(lng), Num(Epsilon))

\* lines 85-91
ProcessLineGpsFound(g, prev, t) ==
  IF g.found
    THEN GpsUpdater(prev, g.lat, g.lng, hasFix(g.lat, g.lng), t)
    ELSE prev

ProcessLineGps(cleanLine, prev, t) ==
  ProcessLineGpsFound(FuzzyGps(cleanLine), prev, t)

\* variant: the fix is looked for only when no reading was found
processLine_SensorElseGps(line, prev, t) ==
  IF Trim(line) = <<>> THEN prev
  ELSE IF FirstMatch(Trim(line), "FuzzySensor").ok
         THEN ProcessLineSensor(Trim(line), prev, t)
         ELSE ProcessLineGps(Trim(line), prev, t)

processLine(line, prev, t) ==
  IF Trim(line) = <<>> THEN prev
  ELSE ProcessLineGps(Trim(line), ProcessLineSensor(Trim(line), prev, t), t)

\* the interpreter of the running variant
interpret(v, line, prev, t) ==
  IF v = "App" THEN handleData(line, prev, t) ELSE processLine(line, prev, t)

(***************************************************************************)
(* Input vocabulary: the lines the transports may deliver.  A decimal is   *)
(* [txt, val]: its text on the wire and the number it denotes.             *)
(***************************************************************************)
Dec(txt, val) == [txt |-> txt, val |-> val]

D42_50 == Dec(<<"4", "2", ".", "5", "0">>, Num(4250 * (Unit \div 100)))
D200_00 == Dec(<<"2", "0", "0", ".", "0", "0">>, Num(200 * Unit))
D149_9 == Dec(<<"1", "4", "9", ".", "9">>, Num(1499 * (Unit \div 10)))
D150 == Dec(<<"1", "5", "0">>, Num(150 * Unit))
D0 == Dec(<<"0">>, Num(0))
DNeg5 == Dec(<<"-", "5">>, Num(-5 * Unit))
D34_0522 == Dec(<<"3", "4", ".", "0", "5", "2", "2">>, Num(340522 * (Unit \div 10000)))
DNeg118_2437 == Dec(<<"-", "1", "1", "8", ".", "2", "4", "3", "7">>, Num(-1182437 * (Unit \div 10000)))
D34_05 == Dec(<<"3", "4", ".", "0", "5">>, Num(3405 * (Unit \div 100)))
DNeg118_24 == Dec(<<"-", "1", "1", "8", ".", "2", "4">>, Num(-11824 * (Unit \div 100)))
D0_00001 == Dec(<<"0", ".", "0", "0", "0", "0", "1">>, Num(Unit \div 100000))
D0_0002 == Dec(<<"0", ".", "0", "0", "0", "2">>, Num(2 * (Unit \div 10000)))
D34 == Dec(<<"3", "4">>, Num(34 * Unit))
DNeg118 == Dec(<<"-", "1", "1", "8">>, Num(-118 * Unit))
D88 == Dec(<<"8", "8">>, Num(88 * Unit))
D12_0 == Dec(<<"1", "2", ".", "0">>, Num(12 * Unit))

\* captures the character classes accept but parseFloat rejects
BadDot == <<".">>
BadDots == <<".", ".", ".">>
BadMinus == <<"-">>

\* sensor ids on the wire: [txt, val]
InRangeIds == {Dec(<<"1">>, 1), Dec(<<"2">>, 2), Dec(<<"3">>, 3)}
OutOfRangeIds == {Dec(<<"0">>, 0), Dec(<<"4">>, 4), Dec(<<"1", "2">>, 12)}
AllIds == InRangeIds \cup OutOfRangeIds

NonNegDistances == {D42_50, D200_00, D0}
BadDistances == {BadDot, BadDots}
\* just below and exactly at the 150 cm threshold
ThresholdDistances == {D149_9, D150}

\* "ID <id>: Distance = <d> cm"
StrictLine(id, d) ==
  <<"I", "D", " ">> \o id \o <<":", " ", "D", "i", "s", "t", "a", "n", "c", "e", " ", "=", " ">> \o d
    \o <<" ", "c", "m">>
\* "S<id>: <d>"
ShortLine(id, d) == <<"S">> \o id \o <<":", " ">> \o d
\* "Sensor <id> = <d>"
NamedLine(id, d) ==
  <<"S", "e", "n", "s", "o", "r", " ">> \o id \o <<" ", "=", " ">> \o d
\* "sensor <id> = <d>"
LowerNamedLine(id, d) ==
  <<"s", "e", "n", "s", "o", "r", " ">> \o id \o <<" ", "=", " ">> \o d
\* "s<id>: <d>"
LowerShortLine(id, d) == <<"s">> \o id \o <<":", " ">> \o d
\* "Lat: <lat> Lng: <lng>"
LabeledLine(a, b) ==
  <<"L", "a", "t", ":", " ">> \o a \o <<" ", "L", "n", "g", ":", " ">> \o b
\* "<lat>,<lng>"
CsvLine(a, b) == a \o <<",">> \o b

GpsPairs ==
  { <<D34_0522, DNeg118_2437>>, <<D34_05, DNeg118_24>>, <<D0, D0>>,
    <<D0_00001, D0_00001>>, <<D0_0002, D0>>, <<D34, DNeg118>> }
BadGpsPairs == { <<BadMinus, <<"5">>>>, <<BadDot, BadDot>> }

Garbage == { <<"h", "e", "l", "l", "o">>, <<"B", "O", "O", "T", " ", "O", "K">> }
Blank == { <<" ", " ">> }

SensorLines ==
  {StrictLine(i.txt, d.txt) : i \in InRangeIds, d \in NonNegDistances}
    \cup {StrictLine(i.txt, D42_50.txt) : i \in OutOfRangeIds}
    \cup {StrictLine(i.txt, d) : i \in {Dec(<<"1">>, 1)},
                                 d \in BadDistances \cup {DNeg5.txt}}
    \cup {ShortLine(i.txt, d.txt) : i \in InRangeIds \cup {Dec(<<"4">>, 4)},
                                    d \in {D42_50, D0, DNeg5}}
    \cup {ShortLine(i.txt, d) : i \in {Dec(<<"1">>, 1)}, d \in BadDistances}
    \cup {StrictLine(<<"1">>, d.txt) : d \in ThresholdDistances}
    \cup {ShortLine(<<"1">>, d.txt) : d \in ThresholdDistances}

GpsLines ==
  {LabeledLine(p[1].txt, p[2].txt) : p \in GpsPairs}
    \cup {LabeledLine(p[1], p[2]) : p \in BadGpsPairs}
    \cup {CsvLine(p[1].txt, p[2].txt) : p \in GpsPairs}

\* one label only: the labeled form needs both
PartialLines == { <<"L", "a", "t", ":", " ", "3", "4", ".", "0", "5">> }

\* "S1: . Lat: 34.05 Lng: -118.24": a malformed reading next to a good fix
MalformedSensorWithGps ==
  ShortLine(<<"1">>, BadDot) \o <<" ">>
    \o LabeledLine(D34_05.txt, DNeg118_24.txt)

\* the tolerant sensor forms: "Sensor 2 = 88", "sensor 2 = 88", "s3: 12.0"
TolerantReadings ==
  { [line |-> NamedLine(<<"2">>, D88.txt), id |-> 2, distance |-> D88.val],
    [line |-> LowerNamedLine(<<"2">>, D88.txt), id |-> 2,
     distance |-> D88.val],
    [line |-> LowerShortLine(<<"3">>, D12_0.txt), id |-> 3,
     distance |-> D12_0.val] }
TolerantLines == {r.line : r \in TolerantReadings}

\* a reading and a fix on one line, in the sensor form of each firmware:
\* "ID 1: Distance = 42.50 cm Lat: 34.05 Lng: -118.24" and
\* "S2: 42.50 Lat: 34.05 Lng: -118.24"
CombinedId(v) == IF v = "App" THEN Dec(<<"1">>, 1) ELSE Dec(<<"2">>, 2)
CombinedSensorPart(v) ==
  IF v = "App" THEN StrictLine(CombinedId(v).txt, D42_50.txt)
               ELSE ShortLine(CombinedId(v).txt, D42_50.txt)
CombinedGpsPart == LabeledLine(D34_05.txt, DNeg118_24.txt)
CombinedLine(v) == CombinedSensorPart(v) \o <<" ">> \o CombinedGpsPart
CombinedLines == {CombinedLine(v) : v \in {"App", "Part000"}}

Lines ==
  SensorLines \cup GpsLines \cup Garbage \cup Blank \cup PartialLines
    \cup {MalformedSensorWithGps} \cup TolerantLines \cup CombinedLines

(***************************************************************************)
(* Specification.                                                          *)
(***************************************************************************)
InitialBikeState ==
  [leftDanger |-> FALSE, rightDanger |-> FALSE, backDanger |-> FALSE,
   sensors |-> [k \in 1..3 |->
                  [id |-> k, distance |-> Num(SentinelCm * Unit),
                   lastUpdate |-> 0]],
   gps |-> [lat |-> Num(0), lng |-> Num(0), valid |-> FALSE, lastUpdate |-> 0],
   isConnected |-> FALSE]

Event(src, lines) == [src |-> src, lines |-> lines]

\* part_000 13-15, 32-34; App.tsx 30-32; nothing is connected yet
InitLink ==
  /\ isConnecting = FALSE
  /\ isSimulating = FALSE
  /\ permissionError = NoError
  /\ connectionMode = "SERIAL"
  /\ pc = "idle"
  /\ buffer = <<>>
  /\ readPos = 0
  /\ ble = "none"
  /\ simTimer = FALSE
  /\ attempts = 0
  /\ delivered = <<>>
  /\ serialFrom = 0
  /\ linkLost = "no"

Init ==
  /\ variant \in {"App", "Part000"}
  /\ bikeState = InitialBikeState
  /\ logs = <<>>
  /\ now = 0
  /\ lastLine = <<>>
  /\ prevState = InitialBikeState
  /\ InitLink
  /\ logged = 0
  /\ prevLogs = <<>>
  /\ lastEvent = Event("none", <<>>)

\* src/App.tsx: a characteristicvaluechanged event runs handleData
HandleDataCall(value) ==
  /\ variant = "App"
  /\ now < MaxLines
  /\ now' = now + 1
  /\ bikeState' = handleData(value, bikeState, now')
  /\ logs' = IF HandleDataLine(value) = <<>> THEN logs
             ELSE addLog(logs, HandleDataLine(value), LogCapApp)
  /\ logged' = IF HandleDataLine(value) = <<>> THEN logged ELSE logged + 1
  /\ lastLine' = value
  /\ prevState' = bikeState
  /\ prevLogs' = logs
  /\ lastEvent' = Event("call", <<value>>)
  /\ UNCHANGED <<variant, linkVars>>

\* part_000: a caller (serial reader, BLE listener, simulator) runs processLine
ProcessLineCall(line) ==
  /\ variant = "Part000"
  /\ now < MaxLines
  /\ now' = now + 1
  /\ bikeState' = processLine(line, bikeState, now')
  /\ lastLine' = line
  /\ prevState' = bikeState
  /\ prevLogs' = logs
  /\ lastEvent' = Event("call", <<line>>)
  /\ UNCHANGED <<variant, logs, logged, linkVars>>

Next ==
  \/ \E value \in Lines \cup {Null} : HandleDataCall(value)
  \/ \E line \in Lines : ProcessLineCall(line)

Spec == Init /\ [][Next]_vars

(***************************************************************************)
(* The log ring on its own: addLog called again and again, each time with  *)
(* a message that names the call, so that every entry of the log tells     *)
(* which call wrote it.                                                    *)
(***************************************************************************)
\* the capacity addLog slices to
LogCap(v) == IF v = "App" THEN LogCapApp ELSE LogCapPart000

RECURSIVE DecimalText(_)
DecimalText(n) ==
  IF n < 10 THEN <<DigitChars[n + 1]>>
  ELSE DecimalText(n \div 10) \o <<DigitChars[(n % 10) + 1]>>

\* "#<k>", the message of the k-th call
LogMessage(k) == <<"#">> \o DecimalText(k)

AddLogCall(msg) ==
  /\ logged < MaxLogCalls
  /\ logs' = addLog(logs, msg, LogCap(variant))
  /\ logged' = logged + 1
  /\ prevLogs' = logs
  /\ UNCHANGED <<variant, bikeState, now, lastLine, prevState, linkVars,
                 lastEvent>>

LogNext == \E msg \in {LogMessage(logged + 1)} : AddLogCall(msg)

LogSpec == Init /\ [][LogNext]_vars

(***************************************************************************)
(* The transports of part_000 and what they hand to processLine.           *)
(***************************************************************************)
\* a fixed text of the user interface, as one log message
Status(text) == <<text>>

\* `>> ${line.trim()}` and `BLE >> ${line}`
SerialEntry(line) == <<">", ">", " ">> \o line
BleEntry(line) == <<"B", "L", "E", " ", ">", ">", " ">> \o line

\* whether the message of a caught error includes "permissions policy"
ErrorKinds == {"permissions policy", "other"}

\* what the unit sends on the serial port after the port is opened, segment
\* by segment: the text on the wire and the line it should become (<<>> for
\* a blank segment): "S1: 88\r\n", "S2: 0\n", " \n", "\n"
SerialSegments ==
  << [text |-> ShortLine(<<"1">>, D88.txt) \o <<"\r", "\n">>,
      line |-> ShortLine(<<"1">>, D88.txt)],
     [text |-> ShortLine(<<"2">>, D0.txt) \o <<"\n">>,
      line |-> ShortLine(<<"2">>, D0.txt)],
     [text |-> <<" ", "\n">>, line |-> <<>>],
     [text |-> <<"\n">>, line |-> <<>>] >>
\* an unterminated "S3" follows
SerialTail == <<"S", "3">>
SerialStream ==
  SerialSegments[1].text \o SerialSegments[2].text \o SerialSegments[3].text
    \o SerialSegments[4].text \o SerialTail

\* the values a BLE notification of each firmware may carry
LinkValues(v) ==
  IF v = "App"
    THEN {StrictLine(<<"1">>, D42_50.txt), CombinedGpsPart, <<" ", " ">>, Null}
    ELSE {ShortLine(<<"1">>, D42_50.txt), CombinedGpsPart, <<" ", " ">>}

\* `ID ${mockId}: ${mockDist.toFixed(2)} cm` and `Lat: ${...} Lng: ${...}`
SimSensorLine(id, d) ==
  <<"I", "D", " ">> \o id \o <<":", " ">> \o d \o <<" ", "c", "m">>
SimGpsLine == LabeledLine(D34_0522.txt, DNeg118_2437.txt)

\* the state a caller of the interpreter reads and writes
Core ==
  [bikeState |-> bikeState, logs |-> logs, now |-> now, logged |-> logged,
   delivered |-> delivered, lastLine |-> lastLine]

SetCore(c) ==
  /\ bikeState' = c.bikeState
  /\ logs' = c.logs
  /\ now' = c.now
  /\ logged' = c.logged
  /\ delivered' = c.delivered
  /\ lastLine' = c.lastLine

\* addLog(msg) with nothing else
LogOnly(c, msg, cap) ==
  [c EXCEPT !.logs = addLog(@, msg, cap), !.logged = @ + 1]

\* processLine(line) called by transport src
HandedAt(c, src, line) ==
  [c EXCEPT !.bikeState = processLine(line, @, c.now + 1),
            !.now = @ + 1,
            !.delivered = Append(@, [src |-> src, line |-> line]),
            !.lastLine = line]

\* (the core and the line are computed once and then handed on)
Handed(c, src, line) ==
  CHOOSE r \in {HandedAt(x, src, l) : x \in {c}, l \in {line}} : TRUE

\* buffer.split('\n') without its last element
NewlinesOf(text) == {i \in 1..Len(text) : text[i] = "\n"}
NthNewline(text, k) ==
  CHOOSE i \in NewlinesOf(text) :
    Cardinality({j \in NewlinesOf(text) : j <= i}) = k
CompleteLines(text) ==
  [k \in 1..Cardinality(NewlinesOf(text)) |->
     SubSeq(text,
            IF k = 1 THEN 1 ELSE NthNewline(text, k - 1) + 1,
            NthNewline(text, k) - 1)]
\* variant: the buffer is emptied after every chunk
Remainder_Dropped(text) == <<>>

\* lines.pop() || ""
Remainder(text) ==
  IF NewlinesOf(text) = {} THEN text
  ELSE SubSeq(text, MaxOf(NewlinesOf(text)) + 1, Len(text))

\* part_000 141-146: one element of lines.forEach
SerialLine(c, line) ==
  IF Trim(line) = <<>> THEN c
  ELSE Handed(LogOnly(c, SerialEntry(Trim(line)), LogCapPart000),
              "SERIAL", Trim(line))

\* variant: of the lines of a chunk only the last one is handed on
SerialLines_LastOnly(c, lines, i) ==
  IF Len(lines) = 0 THEN c ELSE SerialLine(c, lines[Len(lines)])

RECURSIVE SerialLines(_, _, _)
SerialLines(c, lines, i) ==
  IF i > Len(lines) THEN c
  ELSE SerialLines(SerialLine(c, lines[i]), lines, i + 1)

\* setBikeState(prev => ({ ...prev, isConnected: b }))
Connected(c, b) == [c EXCEPT !.bikeState.isConnected = b]

\* the step was a transport event that carried the texts lines
TextStep(src, lines) ==
  /\ lastEvent' = Event(src, lines)
  /\ prevState' = bikeState
  /\ prevLogs' = logs

\* the step was a control or a lifecycle event that left the core at c: no
\* text arrived, and the history says so
NoTextStepTo(c) ==
  /\ SetCore(c)
  /\ lastEvent' = Event("none", <<>>)
  /\ prevState' = c.bikeState
  /\ prevLogs' = c.logs

NoTextStep(c) == \E x \in {c} : NoTextStepTo(x)

\* part_000 258: the connect button is enabled and not under the overlay
ConnectEnabled ==
  /\ ~isConnecting
  /\ ~bikeState.isConnected
  /\ ~isSimulating
  /\ permissionError = NoError

\* part_000 151
IframeRestriction ==
  "IFRAME_RESTRICTION: Open in a new browser tab to connect hardware."

\* part_000 242-253: the COM7 / BLE mode buttons
SelectMode(m) ==
  /\ variant = "Part000"
  /\ permissionError = NoError
  /\ connectionMode # m
  /\ connectionMode' = m
  /\ permissionError' = NoError
  /\ NoTextStep(Core)
  /\ UNCHANGED <<variant, isConnecting, isSimulating, pc, buffer, readPos,
                 ble, simTimer, attempts, serialFrom, linkLost>>

\* part_000 207: "Dismiss Warning" on the overlay
DismissWarning ==
  /\ variant = "Part000"
  /\ permissionError # NoError
  /\ permissionError' = NoError
  /\ NoTextStep(Core)
  /\ UNCHANGED <<variant, isConnecting, isSimulating, connectionMode, pc,
                 buffer, readPos, ble, simTimer, attempts, serialFrom,
                 linkLost>>

\* part_000 118-121: the click, up to await requestPort()
ConnectSerial ==
  /\ variant = "Part000"
  /\ connectionMode = "SERIAL"
  /\ ConnectEnabled
  /\ pc = "idle"
  /\ attempts < MaxAttempts
  /\ attempts' = attempts + 1
  /\ permissionError' = NoError
  /\ isConnecting' = TRUE
  /\ pc' = "requestPort"
  /\ NoTextStep(Core)
  /\ UNCHANGED <<variant, isSimulating, connectionMode, buffer, readPos, ble,
                 simTimer, serialFrom, linkLost>>

\* part_000 123-124: requestPort() resolved, await port.open()
PortGranted ==
  /\ variant = "Part000"
  /\ pc = "requestPort"
  /\ pc' = "open"
  /\ NoTextStep(Core)
  /\ UNCHANGED <<variant, isConnecting, isSimulating, permissionError,
                 connectionMode, buffer, readPos, ble, simTimer, attempts,
                 serialFrom, linkLost>>

\* part_000 125-136: the port is open, up to the first await reader.read()
PortOpened ==
  /\ variant = "Part000"
  /\ pc = "open"
  /\ pc' = "read"
  /\ buffer' = <<>>
  /\ readPos' = 0
  /\ serialFrom' = Len(delivered)
  /\ linkLost' = "no"
  /\ NoTextStep(LogOnly(Connected(Core, TRUE),
                        Status("SERIAL_LINK_ESTABLISHED: COM7"), LogCapPart000))
  /\ UNCHANGED <<variant, isConnecting, isSimulating, permissionError,
                 connectionMode, ble, simTimer, attempts>>

\* part_000 138-147: buffer += value, split, and the forEach
SerialChunk(text) ==
  /\ buffer' = Remainder(text)
  /\ \E c \in {SerialLines(Core, CompleteLines(text), 1)} : SetCore(c)
  /\ TextStep("SERIAL", CompleteLines(text))

\* part_000 136-147: reader.read() resolved with the next n characters
SerialRead(n) ==
  /\ variant = "Part000"
  /\ pc = "read"
  /\ readPos + n <= Len(SerialStream)
  /\ readPos' = readPos + n
  /\ SerialChunk(buffer \o SubSeq(SerialStream, readPos + 1, readPos + n))
  /\ UNCHANGED <<variant, isConnecting, isSimulating, permissionError,
                 connectionMode, pc, ble, simTimer, attempts, serialFrom,
                 linkLost>>

\* part_000 137, 156-158: reader.read() resolved with done: break, finally
SerialDone ==
  /\ variant = "Part000"
  /\ pc = "read"
  /\ pc' = "idle"
  /\ isConnecting' = FALSE
  /\ linkLost' = "serialDone"
  /\ NoTextStep(Core)
  /\ UNCHANGED <<variant, isSimulating, permissionError, connectionMode,
                 buffer, readPos, ble, simTimer, attempts, serialFrom>>

\* `ERR: ${msg}`
ErrEntry(msg) == <<"ERR: ", msg>>

\* part_000 148-155: the catch block
SerialCatch(c, kind) ==
  Connected(IF kind = "permissions policy" THEN c
            ELSE LogOnly(c, ErrEntry(kind), LogCapPart000),
            FALSE)

\* part_000 148-158: an await of connectSerial threw
SerialFail(kind) ==
  /\ variant = "Part000"
  /\ pc \in {"requestPort", "open", "read"}
  /\ pc' = "idle"
  /\ isConnecting' = FALSE
  /\ permissionError' = IF kind = "permissions policy" THEN IframeRestriction
                        ELSE permissionError
  /\ linkLost' = IF pc = "read" THEN "serialThrow" ELSE linkLost
  /\ NoTextStep(SerialCatch(Core, kind))
  /\ UNCHANGED <<variant, isSimulating, connectionMode, buffer, readPos, ble,
                 simTimer, attempts, serialFrom>>

\* part_000 161-164: the click, up to await requestDevice()
ConnectBluetooth ==
  /\ variant = "Part000"
  /\ connectionMode = "BLE"
  /\ ConnectEnabled
  /\ pc = "idle"
  /\ attempts < MaxAttempts
  /\ attempts' = attempts + 1
  /\ permissionError' = NoError
  /\ isConnecting' = TRUE
  /\ pc' = "requestDevice"
  /\ NoTextStep(Core)
  /\ UNCHANGED <<variant, isSimulating, connectionMode, buffer, readPos, ble,
                 simTimer, serialFrom, linkLost>>

\* part_000 165-170: requestDevice() resolved, await gatt.connect() and the
\* service and characteristic lookups
DeviceChosen ==
  /\ variant = "Part000"
  /\ pc = "requestDevice"
  /\ pc' = "gatt"
  /\ NoTextStep(Core)
  /\ UNCHANGED <<variant, isConnecting, isSimulating, permissionError,
                 connectionMode, buffer, readPos, ble, simTimer, attempts,
                 serialFrom, linkLost>>

\* part_000 172-187: the lookups resolved; characteristic may be undefined
GattReady(hasCharacteristic) ==
  /\ variant = "Part000"
  /\ pc = "gatt"
  /\ pc' = "idle"
  /\ isConnecting' = FALSE
  /\ ble' = IF hasCharacteristic THEN "notifying" ELSE ble
  /\ linkLost' = IF hasCharacteristic THEN "no" ELSE linkLost
  /\ NoTextStep(IF hasCharacteristic
                  THEN LogOnly(Connected(Core, TRUE), Status("BLE_LINK_ACTIVE"),
                               LogCapPart000)
                  ELSE Core)
  /\ UNCHANGED <<variant, isSimulating, permissionError, connectionMode,
                 buffer, readPos, simTimer, attempts, serialFrom>>

\* part_000 183-187: an await of connectBluetooth threw
BluetoothFail ==
  /\ variant = "Part000"
  /\ pc \in {"requestDevice", "gatt"}
  /\ pc' = "idle"
  /\ isConnecting' = FALSE
  /\ NoTextStep(LogOnly(Core, Status("BLE_ERR"), LogCapPart000))
  /\ UNCHANGED <<variant, isSimulating, permissionError, connectionMode,
                 buffer, readPos, ble, simTimer, attempts, serialFrom,
                 linkLost>>

\* part_000 175-179: the characteristicvaluechanged listener
BleListener(c, line) ==
  Handed(LogOnly(c, BleEntry(line), LogCapPart000), "BLE", line)

BleNotify(value) ==
  /\ variant = "Part000"
  /\ ble = "notifying"
  /\ now < MaxLines
  /\ \E c \in {BleListener(Core, Trim(value))} : SetCore(c)
  /\ TextStep("BLE", <<value>>)
  /\ UNCHANGED <<variant, isConnecting, isSimulating, permissionError,
                 connectionMode, pc, buffer, readPos, ble, simTimer, attempts,
                 serialFrom, linkLost>>

\* the peripheral goes away; part_000 registers no gattserverdisconnected
\* listener, so no code runs
BleDisconnect ==
  /\ variant = "Part000"
  /\ ble = "notifying"
  /\ ble' = "gone"
  /\ linkLost' = "bleDisconnect"
  /\ NoTextStep(Core)
  /\ UNCHANGED <<variant, isConnecting, isSimulating, permissionError,
                 connectionMode, pc, buffer, readPos, simTimer, attempts,
                 serialFrom>>

\* part_000 94-116, reached from the overlay's "Run Virtual Simulator" (213)
ToggleSimulation ==
  /\ variant = "Part000"
  /\ permissionError # NoError
  /\ isSimulating' = ~isSimulating
  /\ simTimer' = ~isSimulating
  /\ permissionError' = IF isSimulating THEN permissionError ELSE NoError
  /\ linkLost' = IF isSimulating THEN linkLost ELSE "no"
  /\ NoTextStep(IF isSimulating
                  THEN LogOnly(Connected(Core, FALSE),
                               Status("SIMULATION_TERMINATED"), LogCapPart000)
                  ELSE LogOnly(Connected(Core, TRUE),
                               Status("SIMULATION_INITIALIZED"), LogCapPart000))
  /\ UNCHANGED <<variant, isConnecting, connectionMode, pc, buffer, readPos,
                 ble, attempts, serialFrom>>

\* part_000 106-114: the interval callback
SimCallback(c, sensorLine, withGps) ==
  IF withGps
    THEN Handed(Handed(c, "SIM", sensorLine), "SIM", SimGpsLine)
    ELSE Handed(c, "SIM", sensorLine)

SimTick(mockId, withGps) ==
  /\ variant = "Part000"
  /\ simTimer
  /\ now < MaxLines
  /\ \E c \in {SimCallback(Core, SimSensorLine(mockId, D200_00.txt),
                         withGps)} : SetCore(c)
  /\ TextStep("SIM", IF withGps
                       THEN <<SimSensorLine(mockId, D200_00.txt), SimGpsLine>>
                       ELSE <<SimSensorLine(mockId, D200_00.txt)>>)
  /\ UNCHANGED <<variant, isConnecting, isSimulating, permissionError,
                 connectionMode, pc, buffer, readPos, ble, simTimer, attempts,
                 serialFrom, linkLost>>

(***************************************************************************)
(* The BLE transport of App.tsx.                                           *)
(***************************************************************************)
\* App.tsx 88-96: the click, up to await requestDevice()
AppConnectBluetooth ==
  /\ variant = "App"
  /\ ~isConnecting
  /\ pc = "idle"
  /\ attempts < MaxPairings
  /\ attempts' = attempts + 1
  /\ isConnecting' = TRUE
  /\ pc' = "requestDevice"
  /\ NoTextStep(LogOnly(Core, Status("Requesting Bluetooth Device..."),
                        LogCapApp))
  /\ UNCHANGED <<variant, isSimulating, permissionError, connectionMode,
                 buffer, readPos, ble, simTimer, serialFrom, linkLost>>

\* App.tsx 98-103: requestDevice() resolved, await gatt.connect() and the
\* service and characteristic lookups
AppDeviceChosen ==
  /\ variant = "App"
  /\ pc = "requestDevice"
  /\ pc' = "gatt"
  /\ NoTextStep(LogOnly(Core, Status("Connecting to GATT Server: ..."),
                        LogCapApp))
  /\ UNCHANGED <<variant, isConnecting, isSimulating, permissionError,
                 connectionMode, buffer, readPos, ble, simTimer, attempts,
                 serialFrom, linkLost>>

\* App.tsx 105-122: the lookups resolved; characteristic may be undefined
AppGattReady(hasCharacteristic) ==
  /\ variant = "App"
  /\ pc = "gatt"
  /\ pc' = "idle"
  /\ isConnecting' = FALSE
  /\ ble' = IF hasCharacteristic THEN "notifying" ELSE ble
  /\ linkLost' = IF hasCharacteristic THEN "no" ELSE linkLost
  /\ NoTextStep(IF hasCharacteristic
                  THEN LogOnly(Connected(Core, TRUE),
                               Status("Bluetooth Link Established."), LogCapApp)
                  ELSE Core)
  /\ UNCHANGED <<variant, isSimulating, permissionError, connectionMode,
                 buffer, readPos, simTimer, attempts, serialFrom>>

\* App.tsx 117-122: an await of connectBluetooth threw
AppBluetoothFail ==
  /\ variant = "App"
  /\ pc \in {"requestDevice", "gatt"}
  /\ pc' = "idle"
  /\ isConnecting' = FALSE
  /\ NoTextStep(Connected(LogOnly(Core, Status("Error: ..."), LogCapApp), FALSE))
  /\ UNCHANGED <<variant, isSimulating, permissionError, connectionMode,
                 buffer, readPos, ble, simTimer, attempts, serialFrom,
                 linkLost>>

\* App.tsx 39-86: handleData as the characteristicvaluechanged listener
AppListener(c, value) ==
  [c EXCEPT
     !.bikeState = handleData(value, @, c.now + 1),
     !.logs = IF HandleDataLine(value) = <<>> THEN @
              ELSE addLog(@, HandleDataLine(value), LogCapApp),
     !.logged = IF HandleDataLine(value) = <<>> THEN @ ELSE @ + 1,
     !.now = @ + 1,
     !.delivered = Append(@, [src |-> "BLE", line |-> HandleDataLine(value)]),
     !.lastLine = value]

AppNotify(value) ==
  /\ variant = "App"
  /\ ble = "notifying"
  /\ now < MaxLines
  /\ \E c \in {AppListener(Core, value)} : SetCore(c)
  /\ TextStep("BLE", <<value>>)
  /\ UNCHANGED <<variant, isConnecting, isSimulating, permissionError,
                 connectionMode, pc, buffer, readPos, ble, simTimer, attempts,
                 serialFrom, linkLost>>

\* App.tsx 112-115: the gattserverdisconnected listener
AppDisconnect ==
  /\ variant = "App"
  /\ ble = "notifying"
  /\ ble' = "gone"
  /\ linkLost' = "bleDisconnect"
  /\ NoTextStep(Connected(LogOnly(Core, Status("Device Disconnected."),
                                  LogCapApp), FALSE))
  /\ UNCHANGED <<variant, isConnecting, isSimulating, permissionError,
                 connectionMode, pc, buffer, readPos, simTimer, attempts,
                 serialFrom>>

LinkNext ==
  \/ \E m \in {"SERIAL", "BLE"} : SelectMode(m)
  \/ DismissWarning
  \/ ConnectSerial
  \/ PortGranted
  \/ PortOpened
  \/ \E n \in 1..MaxChunk : SerialRead(n)
  \/ SerialDone
  \/ \E kind \in ErrorKinds : SerialFail(kind)
  \/ ConnectBluetooth
  \/ DeviceChosen
  \/ \E hasCharacteristic \in BOOLEAN : GattReady(hasCharacteristic)
  \/ BluetoothFail
  \/ \E value \in LinkValues("Part000") : BleNotify(value)
  \/ BleDisconnect
  \/ ToggleSimulation
  \/ \E mockId \in {i.txt : i \in InRangeIds}, withGps \in BOOLEAN :
       SimTick(mockId, withGps)
  \/ AppConnectBluetooth
  \/ AppDeviceChosen
  \/ \E hasCharacteristic \in BOOLEAN : AppGattReady(hasCharacteristic)
  \/ AppBluetoothFail
  \/ \E value \in LinkValues("App") : AppNotify(value)
  \/ AppDisconnect

LinkSpec == Init /\ [][LinkNext]_vars

(***************************************************************************)
(* The interpreter on the GPS forms alone: a small vocabulary of lines     *)
(* that carry the labels in either order, one label only, the comma pair   *)
(* next to labels, and plain sensor and GPS lines around them.             *)
(***************************************************************************)
\* "Lng: <lng> Lat: <lat>"
SwappedLine(a, b) ==
  <<"L", "n", "g", ":", " ">> \o b \o <<" ", "L", "a", "t", ":", " ">> \o a
\* "Lat: <lat>" and "Lng: <lng>"
LatOnlyLine(a) == <<"L", "a", "t", ":", " ">> \o a
LngOnlyLine(b) == <<"L", "n", "g", ":", " ">> \o b

\* what a GPS line says: the fix it carries
Fix(line, lat, lng) == [line |-> line, lat |-> lat, lng |-> lng]

\* "Lat: 34.05 Lng: -118.24 34.0522,-118.2437" and
\* "34.0522,-118.2437 Lat: 34.05 Lng: -118.24": both labels and a comma pair
BothLabelsAndPair ==
  { Fix(LabeledLine(D34_05.txt, DNeg118_24.txt) \o <<" ">>
          \o CsvLine(D34_0522.txt, DNeg118_2437.txt),
        D34_05.val, DNeg118_24.val),
    Fix(CsvLine(D34_0522.txt, DNeg118_2437.txt) \o <<" ">>
          \o LabeledLine(D34_05.txt, DNeg118_24.txt),
        D34_05.val, DNeg118_24.val) }

\* "Lat: 34.0522,-118.2437" and "Lng: -118.24 34.0522,-118.2437": one label
\* and a comma pair
OneLabelAndPair ==
  { Fix(LatOnlyLine(CsvLine(D34_0522.txt, DNeg118_2437.txt)),
        D34_0522.val, DNeg118_2437.val),
    Fix(LngOnlyLine(DNeg118_24.txt) \o <<" ">>
          \o CsvLine(D34_0522.txt, DNeg118_2437.txt),
        D34_0522.val, DNeg118_2437.val) }

\* "Lng: -118.24 Lat: 34.05" and "Lng: 0.0002 Lat: 34"
SwappedFixes ==
  { Fix(SwappedLine(D34_05.txt, DNeg118_24.txt), D34_05.val, DNeg118_24.val),
    Fix(SwappedLine(D34.txt, D0_0002.txt), D34.val, D0_0002.val) }

\* "Lat: 34.05 Lng: -118.24" and "Lat: 34 Lng: 0.0002"
OrderedFixes ==
  { Fix(LabeledLine(D34_05.txt, DNeg118_24.txt), D34_05.val, DNeg118_24.val),
    Fix(LabeledLine(D34.txt, D0_0002.txt), D34.val, D0_0002.val) }

\* "Lat: 34.05" and "Lng: -118.24"
OneLabelLines == {LatOnlyLine(D34_05.txt), LngOnlyLine(DNeg118_24.txt)}

\* plain sensor lines in the form of each firmware, and a comma pair
PlainSensorLines ==
  {StrictLine(<<"1">>, D42_50.txt), ShortLine(<<"2">>, D42_50.txt),
   StrictLine(<<"3">>, D200_00.txt), ShortLine(<<"3">>, D200_00.txt)}
PlainPairLines == {CsvLine(D34_0522.txt, DNeg118_2437.txt)}

FormLines ==
  {f.line : f \in BothLabelsAndPair \cup OneLabelAndPair \cup SwappedFixes
                    \cup OrderedFixes}
    \cup OneLabelLines \cup PlainSensorLines \cup PlainPairLines
    \cup CombinedLines \cup Garbage

FormsNext ==
  \/ \E value \in FormLines : HandleDataCall(value)
  \/ \E line \in FormLines : ProcessLineCall(line)

FormsSpec == Init /\ [][FormsNext]_vars

(***************************************************************************)
(* Vocabulary of the properties.                                           *)
(***************************************************************************)
\* a handler call has happened; lastLine and prevState describe it
Interpreted == now > 0

Flag(S, k) ==
  IF k = 1 THEN S.leftDanger ELSE IF k = 2 THEN S.rightDanger ELSE S.backDanger

\* 0 < distance < 150 cm, spelled out on the fixed-point value
WithinDanger(distance) ==
  ~distance.nan /\ 0 < distance.v /\ distance.v < ThresholdCm * Unit

\* |lat| > 0.0001 or |lng| > 0.0001, spelled out on the fixed-point values
BeyondEpsilon(lat, lng) ==
  LET far(x) == ~x.nan /\ (x.v > Unit \div 10000 \/ -x.v > Unit \div 10000)
  IN far(lat) \/ far(lng)

SameReadingsAndFlags(S, T) ==
  /\ \A k \in 1..3 : S.sensors[k] = T.sensors[k]
  /\ \A k \in 1..3 : Flag(S, k) = Flag(T, k)

\* a sensor line in the form the variant's firmware sends
SensorLineOf(v, id, d) ==
  IF v = "App" THEN StrictLine(id, d) ELSE ShortLine(id, d)

\* what a sensor line says: the sensor it addresses and the distance it carries
Reading(line, id, distance) ==
  [line |-> line, id |-> id, distance |-> distance]

\* the well-formed in-range sensor lines in the forms each pattern covers:
\* the strict form for App.tsx, the short and named forms for part_000
ValidReadingsApp ==
  {Reading(StrictLine(i.txt, d.txt), i.val, d.val) :
     i \in InRangeIds, d \in NonNegDistances \cup ThresholdDistances}
ValidReadingsPart000 ==
  {Reading(ShortLine(i.txt, d.txt), i.val, d.val) :
     i \in InRangeIds, d \in NonNegDistances \cup ThresholdDistances}
    \cup TolerantReadings
ValidReadings(v) ==
  IF v = "App" THEN ValidReadingsApp ELSE ValidReadingsPart000

\* every line of the vocabulary in which each sensor pattern finds an
\* in-range reading, the ones whose distance text is not a number included
RecognizedReadingsApp ==
  ValidReadingsApp
    \cup {Reading(StrictLine(<<"1">>, d), 1, NaN) : d \in BadDistances}
    \cup {Reading(CombinedLine("App"), CombinedId("App").val, D42_50.val)}
RecognizedReadingsPart000 ==
  ValidReadingsPart000
    \cup {Reading(ShortLine(<<"1">>, d), 1, NaN) : d \in BadDistances}
    \cup {Reading(MalformedSensorWithGps, 1, NaN),
          Reading(CombinedLine("Part000"), CombinedId("Part000").val,
                  D42_50.val)}
RecognizedReadings(v) ==
  IF v = "App" THEN RecognizedReadingsApp ELSE RecognizedReadingsPart000

\* the trimmed line matches none of the patterns of variant v
Unrecognized(v, line) ==
  IF v = "App"
    THEN /\ ~FirstMatch(line, "StrictSensor").ok
         /\ ~FirstMatch(line, "StrictGps").ok
    ELSE /\ ~FirstMatch(line, "FuzzySensor").ok
         /\ ~(FirstMatch(line, "Lat").ok /\ FirstMatch(line, "Lng").ok)
         /\ ~FirstMatch(line, "CommaGps").ok

(***************************************************************************)
(* C1  Strict sensor form: after "ID <id>: Distance = <d> cm" with id in   *)
(* 1..3 and d a non-negative decimal, sensors[id] is {id, d, t}, the flag  *)
(* of id is 0 < d < 150, and the other two readings and flags are those of *)
(* the previous state -- in both variants.                                 *)
(***************************************************************************)
C1_StrictSensorForm ==
  \A i \in InRangeIds, d \in NonNegDistances :
    (Interpreted /\ lastLine = StrictLine(i.txt, d.txt)) =>
      /\ bikeState.sensors[i.val] =
           [id |-> i.val, distance |-> d.val, lastUpdate |-> now]
      /\ Flag(bikeState, i.val) = WithinDanger(d.val)
      /\ \A k \in (1..3) \ {i.val} :
           /\ bikeState.sensors[k] = prevState.sensors[k]
           /\ Flag(bikeState, k) = Flag(prevState, k)

(***************************************************************************)
(* C2  Danger-flag invariant: in every reachable state each danger flag    *)
(* equals 0 < distance < 150 of its sensor.                                *)
(***************************************************************************)
C2_DangerFlagInvariant ==
  \A k \in 1..3 : Flag(bikeState, k) = WithinDanger(bikeState.sensors[k].distance)

\* a line has cleared a raised flag, and another flag is still raised
C2_Witness ==
  /\ Interpreted
  /\ \E k \in 1..3 : Flag(prevState, k) /\ ~Flag(bikeState, k)
                       /\ ~WithinDanger(bikeState.sensors[k].distance)

(***************************************************************************)
(* C3  No-op: a non-empty line that matches neither the sensor pattern nor *)
(* a GPS pattern leaves bikeState equal to the previous state in every     *)
(* field.                                                                  *)
(***************************************************************************)
C3_NoOp ==
  (/\ Interpreted
   /\ lastLine # Null
   /\ Trim(lastLine) # <<>>
   /\ Unrecognized(variant, Trim(lastLine))) => bikeState = prevState

\* an unrecognized line arrived in a state that earlier lines had changed
C3_Witness ==
  /\ Interpreted
  /\ lastLine \in Garbage \cup PartialLines
  /\ Unrecognized(variant, Trim(lastLine))
  /\ prevState # InitialBikeState
  /\ bikeState = prevState

(***************************************************************************)
(* C4  Out-of-range id: a well-formed sensor line whose id is outside 1..3 *)
(* leaves the three readings and flags as they were and stores no reading  *)
(* under that id -- in both variants.                                      *)
(***************************************************************************)
C4_OutOfRangeDropped ==
  \A i \in OutOfRangeIds, d \in {D42_50} :
    (Interpreted /\ lastLine = StrictLine(i.txt, d.txt)) =>
      /\ SameReadingsAndFlags(bikeState, prevState)
      /\ i.val \notin DOMAIN bikeState.sensors

(***************************************************************************)
(* C5  Non-positive distances never signal danger: after a sensor line for *)
(* id in 1..3 whose distance is <= 0 (zero or a signed negative decimal),  *)
(* the flag of id is false, whatever it was before.                        *)
(***************************************************************************)
C5_NonPositiveNeverDanger ==
  \A i \in InRangeIds, d \in {D0, DNeg5} :
    (Interpreted /\ lastLine = SensorLineOf(variant, i.txt, d.txt)) =>
      ~Flag(bikeState, i.val)

(***************************************************************************)
(* C6  Malformed sensor number: when the sensor pattern matches but the    *)
(* distance capture is not a number, sensors[id] and its flag keep their   *)
(* previous values (no NaN is stored), and a GPS fix on the same line is   *)
(* still applied.                                                          *)
(***************************************************************************)
C6_MalformedSensorSkipped ==
  /\ \A d \in BadDistances :
       (Interpreted /\ lastLine \in {ShortLine(<<"1">>, d),
                                     StrictLine(<<"1">>, d)}) =>
         /\ bikeState.sensors[1] = prevState.sensors[1]
         /\ Flag(bikeState, 1) = Flag(prevState, 1)
  /\ (Interpreted /\ variant = "Part000"
        /\ lastLine = MalformedSensorWithGps) =>
         /\ bikeState.sensors[1] = prevState.sensors[1]
         /\ Flag(bikeState, 1) = Flag(prevState, 1)
         /\ bikeState.gps.lat = D34_05.val
         /\ bikeState.gps.lng = DNeg118_24.val
         /\ bikeState.gps.lastUpdate = now

(***************************************************************************)
(* C7  Malformed GPS number: when both labels match but a capture is not a *)
(* number, gps keeps its previous value.                                   *)
(***************************************************************************)
C7_MalformedGpsSkipped ==
  \A p \in BadGpsPairs :
    (Interpreted /\ lastLine = LabeledLine(p[1], p[2])) =>
      bikeState.gps = prevState.gps

(***************************************************************************)
(* C8  Labeled GPS form: "Lat: <lat> Lng: <lng>" at time t replaces the    *)
(* whole gps record: lat, lng and lastUpdate = t are the new ones, and the *)
(* record is the one the same line gives from the initial state, so that   *)
(* no field of the previous fix survives; for 34.0522 / -118.2437 the      *)
(* result is valid.                                                        *)
(***************************************************************************)
C8_LabeledGpsReplaces ==
  \A p \in GpsPairs :
    (Interpreted /\ lastLine = LabeledLine(p[1].txt, p[2].txt)) =>
      /\ bikeState.gps.lat = p[1].val
      /\ bikeState.gps.lng = p[2].val
      /\ bikeState.gps.lastUpdate = now
      /\ bikeState.gps = interpret(variant, lastLine, InitialBikeState, now).gps
      /\ (p = <<D34_0522, DNeg118_2437>> => bikeState.gps.valid)

\* a labeled fix has replaced an earlier, different and valid fix
C8_Witness ==
  /\ Interpreted
  /\ \E p \in GpsPairs : lastLine = LabeledLine(p[1].txt, p[2].txt)
  /\ prevState.gps.valid
  /\ ~prevState.gps.lat.nan
  /\ prevState.gps.lastUpdate > 0
  /\ bikeState.gps.lat # prevState.gps.lat
  /\ bikeState.gps.lastUpdate = now

(***************************************************************************)
(* C9  Epsilon rule: after every GPS update gps.valid is                   *)
(* |lat| > 0.0001 or |lng| > 0.0001 -- in both variants.                   *)
(***************************************************************************)
C9_EpsilonRule ==
  \A p \in GpsPairs :
    (Interpreted /\ lastLine = LabeledLine(p[1].txt, p[2].txt)) =>
      bikeState.gps.valid = BeyondEpsilon(p[1].val, p[2].val)

(***************************************************************************)
(* C10  CSV fallback equivalence: "<lat>,<lng>" gives the same gps lat,    *)
(* lng and valid as "Lat: <lat> Lng: <lng>" from the same state -- in both *)
(* variants.                                                               *)
(***************************************************************************)
C10_CsvEquivalence ==
  \A p \in GpsPairs :
    (Interpreted /\ lastLine = CsvLine(p[1].txt, p[2].txt)) =>
      LET labeled == interpret(variant, LabeledLine(p[1].txt, p[2].txt),
                               prevState, now).gps
      IN /\ bikeState.gps.lat = labeled.lat
         /\ bikeState.gps.lng = labeled.lng
         /\ bikeState.gps.valid = labeled.valid

(***************************************************************************)
(* C14  Idempotence of a sensor line: when a well-formed in-range sensor   *)
(* line L has just been interpreted at t1 (from whatever state the run had *)
(* reached), interpreting L again at a later t2 leaves every reading,      *)
(* every flag and the fix as they are after the first time, except that    *)
(* lastUpdate of the addressed sensor becomes t2.                          *)
(***************************************************************************)
C14_Idempotent ==
  \A r \in ValidReadings(variant) :
    Interpreted /\ lastLine = r.line =>
      /\ bikeState.sensors[r.id] =
           [id |-> r.id, distance |-> r.distance, lastUpdate |-> now]
      /\ interpret(variant, r.line, bikeState, now + 1) =
           [bikeState EXCEPT !.sensors[r.id].lastUpdate = now + 1]

\* the same line has arrived twice in a row: the second call found the
\* reading the first call stored
C14_Witness ==
  /\ now = 2
  /\ lastLine = SensorLineOf(variant, <<"1">>, D42_50.txt)
  /\ prevState.sensors[1] =
       [id |-> 1, distance |-> D42_50.val, lastUpdate |-> 1]
  /\ prevState.leftDanger
  /\ bikeState.sensors[1] =
       [id |-> 1, distance |-> D42_50.val, lastUpdate |-> 2]
  /\ bikeState.leftDanger

(***************************************************************************)
(* C15  Tolerant sensor forms: after "Sensor <n> = <f>" or "S<n>: <f>" in  *)
(* any letter case with n in 1..3, sensors[n] is {n, f, t}, the flag of n  *)
(* is 0 < f < 150, and the other readings and flags are those of the       *)
(* previous state -- in handleData and in processLine alike.               *)
(***************************************************************************)
C15_TolerantForms ==
  \A r \in TolerantReadings :
    Interpreted /\ lastLine = r.line =>
      /\ bikeState.sensors[r.id] =
           [id |-> r.id, distance |-> r.distance, lastUpdate |-> now]
      /\ Flag(bikeState, r.id) = WithinDanger(r.distance)
      /\ \A k \in (1..3) \ {r.id} :
           /\ bikeState.sensors[k] = prevState.sensors[k]
           /\ Flag(bikeState, k) = Flag(prevState, k)

(***************************************************************************)
(* C16  Sensor and GPS matching are independent within one line: after a   *)
(* line carrying both an in-range reading and a labeled fix, the reading   *)
(* and the fix are both stored, and the state is the one reached by        *)
(* interpreting the reading alone and then the fix alone, and also the one *)
(* reached by interpreting the fix alone and then the reading alone.       *)
(***************************************************************************)
C16_SensorGpsIndependent ==
  Interpreted /\ lastLine = CombinedLine(variant) =>
    /\ bikeState =
         interpret(variant, CombinedGpsPart,
                   interpret(variant, CombinedSensorPart(variant),
                             prevState, now), now)
    /\ bikeState =
         interpret(variant, CombinedSensorPart(variant),
                   interpret(variant, CombinedGpsPart, prevState, now), now)
    /\ bikeState.sensors[CombinedId(variant).val] =
         [id |-> CombinedId(variant).val, distance |-> D42_50.val,
          lastUpdate |-> now]
    /\ Flag(bikeState, CombinedId(variant).val)
    /\ bikeState.gps = [lat |-> D34_05.val, lng |-> DNeg118_24.val,
                        valid |-> TRUE, lastUpdate |-> now]

\* a combined line has arrived where both the reading and the fix differ
\* from what was stored
C16_Witness ==
  /\ Interpreted
  /\ lastLine = CombinedLine(variant)
  /\ prevState.sensors[CombinedId(variant).val].distance # D42_50.val
  /\ prevState.gps.lat # D34_05.val
  /\ bikeState.sensors[CombinedId(variant).val].distance = D42_50.val
  /\ bikeState.gps.lat = D34_05.val

(***************************************************************************)
(* C17  Latest reading wins: for each k in 1..3, a sensor that no line has *)
(* addressed holds the sentinel 999 with lastUpdate 0; a call whose line   *)
(* is a recognised sensor line for k leaves sensors[k].distance at that    *)
(* line's distance; and any other call (a line for another id, a fix, an   *)
(* unrecognised line) leaves sensors[k] as it was.  Over a run this makes  *)
(* sensors[k].distance the distance of the most recent recognised sensor   *)
(* line for k.                                                             *)
(***************************************************************************)
C17_LatestReadingWins ==
  \A k \in 1..3 :
    /\ k \in DOMAIN bikeState.sensors
    /\ bikeState.sensors[k].lastUpdate = 0 =>
         bikeState.sensors[k].distance = Num(SentinelCm * Unit)
    /\ Interpreted =>
         IF \E r \in RecognizedReadings(variant) :
              r.line = lastLine /\ r.id = k
           THEN \A r \in RecognizedReadings(variant) :
                  r.line = lastLine /\ r.id = k =>
                    bikeState.sensors[k] =
                      [id |-> k, distance |-> r.distance, lastUpdate |-> now]
           ELSE bikeState.sensors[k] = prevState.sensors[k]

\* a reading has replaced an earlier, closer reading of the same sensor
\* while another sensor kept the reading it had
C17_Witness ==
  /\ now = 2
  /\ lastLine = SensorLineOf(variant, <<"1">>, D150.txt)
  /\ prevState.sensors[1].distance = D42_50.val
  /\ bikeState.sensors[1].distance = D150.val
  /\ bikeState.sensors[2].lastUpdate = 0
  /\ bikeState.sensors[2].distance = Num(SentinelCm * Unit)

(***************************************************************************)
(* C18  Sensor table shape: in every reachable state the sensors map has   *)
(* exactly the keys 1, 2 and 3 and the reading under key k has id = k --   *)
(* after handleData calls and after processLine calls alike.               *)
(***************************************************************************)
C18_SensorTableShape ==
  /\ DOMAIN bikeState.sensors = 1..3
  /\ \A k \in DOMAIN bikeState.sensors : bikeState.sensors[k].id = k

(***************************************************************************)
(* C13  Bounded recent-log ring: after k addLog calls the log holds        *)
(* exactly the min(k, N) most recent messages, newest first, with N = 10   *)
(* in App.tsx and N = 50 in part_000; its length never exceeds N; and a    *)
(* call on a full log removes the oldest entry and keeps the others in     *)
(* order behind the new one.                                               *)
(***************************************************************************)
C13_LogRing ==
  /\ Len(logs) = IF logged < LogCap(variant) THEN logged ELSE LogCap(variant)
  /\ Len(logs) <= LogCap(variant)
  /\ \A i \in 1..Len(logs) : logs[i] = LogMessage(logged - i + 1)
  /\ logged > 0 /\ Len(prevLogs) = LogCap(variant) =>
       logs = <<LogMessage(logged)>>
                \o SubSeq(prevLogs, 1, LogCap(variant) - 1)

\* part_000's log has been full and one more message has been added
C13_Witness ==
  /\ variant = "Part000"
  /\ logged = LogCapPart000 + 1
  /\ Len(prevLogs) = LogCapPart000
  /\ Len(logs) = LogCapPart000
  /\ logs[1] = LogMessage(LogCapPart000 + 1)
  /\ logs[LogCapPart000] = LogMessage(2)

(***************************************************************************)
(* C11  Empty input is ignored on every path: when the text a transport    *)
(* event carried (the segments a serial read completed, the value of a BLE *)
(* notification in part_000, the value handed to handleData in App.tsx)    *)
(* is empty or whitespace only, the step changes neither bikeState nor the *)
(* log.                                                                    *)
(***************************************************************************)
Blankish(text) == text = Null \/ Trim(text) = <<>>

C11_BlankIgnored ==
  /\ lastEvent.lines # <<>>
  /\ \A i \in 1..Len(lastEvent.lines) : Blankish(lastEvent.lines[i])
  => /\ bikeState = prevState
     /\ logs = prevLogs

(***************************************************************************)
(* C12  Unconditional logging: as long as the log has evicted nothing,     *)
(* every non-empty line handed to the interpreter -- by the serial reader, *)
(* by a BLE notification or by the simulator -- has its raw-log entries:   *)
(* the log holds exactly as many entries ending in that line as the line   *)
(* was handed over.                                                        *)
(***************************************************************************)
EndsWith(entry, line) ==
  /\ Len(entry) >= Len(line)
  /\ SubSeq(entry, Len(entry) - Len(line) + 1, Len(entry)) = line

C12_EveryLineLogged ==
  logged <= LogCap(variant) =>
    \A j \in 1..Len(delivered) :
      delivered[j].line # <<>> =>
        Cardinality({i \in 1..Len(logs) :
                       EndsWith(logs[i], delivered[j].line)})
          = Cardinality({i \in 1..Len(delivered) :
                           delivered[i].line = delivered[j].line})

(***************************************************************************)
(* C19  Link loss is surfaced: once an established transport has stopped   *)
(* delivering (serial reader done, serial read threw, BLE device           *)
(* disconnected) and the code that handles the event has run to its end,   *)
(* isConnected is false -- for the serial and BLE paths of part_000 and    *)
(* the BLE path of App.tsx.                                                *)
(***************************************************************************)
C19_LinkLossSurfaced ==
  linkLost # "no" /\ pc = "idle" => ~bikeState.isConnected

(***************************************************************************)
(* C20  Serial framing is independent of chunk boundaries: however the     *)
(* reads cut the stream, when the reader has returned the first readPos    *)
(* characters the interpreter has been handed exactly the non-blank        *)
(* segments terminated within them, trimmed, once each and in order, and   *)
(* the buffer holds exactly what follows the last terminator.              *)
(***************************************************************************)
\* the index in SerialStream of the terminator of segment k
RECURSIVE SegmentEnd(_)
SegmentEnd(k) ==
  IF k = 0 THEN 0 ELSE SegmentEnd(k - 1) + Len(SerialSegments[k].text)

\* the lines of the non-blank segments among the first k
RECURSIVE LinesOfSegments(_)
LinesOfSegments(k) ==
  IF k = 0 THEN <<>>
  ELSE IF SerialSegments[k].line = <<>> THEN LinesOfSegments(k - 1)
  ELSE Append(LinesOfSegments(k - 1), SerialSegments[k].line)

\* how many segments are terminated within the first pos characters
TerminatedBy(pos) ==
  Cardinality({k \in 1..Len(SerialSegments) : SegmentEnd(k) <= pos})

\* the lines the serial reader has handed over since the port was opened
SerialDelivered ==
  [i \in 1..(Len(delivered) - serialFrom) |-> delivered[serialFrom + i].line]

C20_FramingIndependent ==
  pc = "read" =>
    /\ SerialDelivered = LinesOfSegments(TerminatedBy(readPos))
    /\ buffer = SubSeq(SerialStream, SegmentEnd(TerminatedBy(readPos)) + 1,
                       readPos)
    /\ \A i \in (serialFrom + 1)..Len(delivered) :
         delivered[i].src = "SERIAL"

\* the whole of "S2: 0" has arrived but not its terminator: the line is
\* held in the buffer and only "S1: 88" has been handed over
C20_Witness ==
  /\ pc = "read"
  /\ readPos = SegmentEnd(2) - 1
  /\ buffer = SerialSegments[2].line
  /\ SerialDelivered = <<SerialSegments[1].line>>

(***************************************************************************)
(* C21  Lines are applied one at a time in arrival order: after a          *)
(* transport event that carried the lines L1..Ln (the complete lines of    *)
(* one serial chunk, the two lines of one simulator tick, the value of one *)
(* notification) the state is the left fold of the interpreter over the    *)
(* lines handed on, starting from the state before the event, each call    *)
(* one tick of the clock after the one before.                             *)
(***************************************************************************)
\* the serial reader hands on the non-blank lines only
NonBlank(line) == Trim(line) # <<>>
AppliedLines(ev) ==
  IF ev.src = "SERIAL" THEN SelectSeq(ev.lines, NonBlank) ELSE ev.lines

RECURSIVE FoldInterpret(_, _, _, _, _)
FoldInterpret(v, S, lines, i, t) ==
  IF i > Len(lines) THEN S
  ELSE FoldInterpret(v, interpret(v, lines[i], S, t + 1), lines, i + 1, t + 1)

FoldOver(v, S, lines, t) == FoldInterpret(v, S, lines, 1, t - Len(lines))

C21_LeftFold ==
  lastEvent.src \in {"SERIAL", "BLE", "SIM"} =>
    bikeState = FoldOver(variant, prevState, AppliedLines(lastEvent), now)

\* one chunk completed "S1: 88" and "S2: 0" together, and both readings are
\* in the table, one tick apart
C21_Witness ==
  /\ lastEvent.src = "SERIAL"
  /\ Len(AppliedLines(lastEvent)) = 2
  /\ bikeState.sensors[1] = [id |-> 1, distance |-> D88.val,
                             lastUpdate |-> now - 1]
  /\ bikeState.sensors[2] = [id |-> 2, distance |-> D0.val, lastUpdate |-> now]
  /\ prevState.sensors[1].lastUpdate = 0

\* the simulator's reading and fix of one tick are both in the state
C21_WitnessSim ==
  /\ lastEvent.src = "SIM"
  /\ Len(lastEvent.lines) = 2
  /\ bikeState.gps.lastUpdate = now
  /\ \E k \in 1..3 : bikeState.sensors[k].lastUpdate = now - 1

(***************************************************************************)
(* C22  CSV fallback precedence in part_000: after a line in which both    *)
(* the latitude label and the longitude label match and a comma pair is    *)
(* present too, gps.lat and gps.lng are the labeled captures; after a line *)
(* in which only one label matches and a comma pair is present, they are   *)
(* the comma pair.                                                         *)
(***************************************************************************)
C22_CsvPrecedence ==
  \A f \in BothLabelsAndPair \cup OneLabelAndPair :
    (variant = "Part000" /\ Interpreted /\ lastLine = f.line) =>
      /\ bikeState.gps.lat = f.lat
      /\ bikeState.gps.lng = f.lng
      /\ bikeState.gps.lastUpdate = now

\* a line with both labels and a pair arrived after the pair alone had set
\* the fix, and the labeled captures replaced it
C22_Witness ==
  /\ variant = "Part000"
  /\ now = 2
  /\ \E f \in BothLabelsAndPair : lastLine = f.line
  /\ prevState.gps.lat = D34_0522.val
  /\ bikeState.gps.lat = D34_05.val
  /\ bikeState.gps.lng = DNeg118_24.val

\* a line with one label and a pair took the pair
C22_WitnessOneLabel ==
  /\ variant = "Part000"
  /\ \E f \in OneLabelAndPair : lastLine = f.line
  /\ bikeState.gps.lat = D34_0522.val
  /\ bikeState.gps.lng = DNeg118_2437.val

(***************************************************************************)
(* C23  Labeled GPS needs both labels and no order: after                  *)
(* "Lng: <b> Lat: <a>" gps.lat is a and gps.lng is b, as after             *)
(* "Lat: <a> Lng: <b>", and after a line with one label only and no comma  *)
(* pair gps is what it was -- in both variants.                            *)
(***************************************************************************)
C23_SwappedApplied ==
  \A f \in SwappedFixes :
    (Interpreted /\ lastLine = f.line) =>
      /\ bikeState.gps.lat = f.lat
      /\ bikeState.gps.lng = f.lng
      /\ bikeState.gps.lastUpdate = now

C23_OneLabelIgnored ==
  \A line \in OneLabelLines :
    (Interpreted /\ lastLine = line) => bikeState.gps = prevState.gps

C23_LabelOrder == C23_SwappedApplied /\ C23_OneLabelIgnored

(***************************************************************************)
(* C24  Frame of a line update: interpreting a line never changes          *)
(* isConnected; a line in which the sensor pattern matches and no GPS      *)
(* update applies leaves gps as it was; a line in which a GPS pattern      *)
(* matches and the sensor pattern does not leaves the three readings and   *)
(* the three danger flags as they were -- in both variants, whichever      *)
(* transport delivered the line.                                           *)
(***************************************************************************)
\* the text the interpreter looks at
TextOf(line) == IF line = Null THEN <<>> ELSE Trim(line)

SensorMatched(v, text) ==
  IF v = "App" THEN FirstMatch(text, "StrictSensor").ok
               ELSE FirstMatch(text, "FuzzySensor").ok

\* the patterns find a fix to apply
GpsApplies(v, text) ==
  IF v = "App" THEN FirstMatch(text, "StrictGps").ok
  ELSE \/ FirstMatch(text, "Lat").ok /\ FirstMatch(text, "Lng").ok
       \/ FirstMatch(text, "CommaGps").ok

\* one of the GPS patterns matches
GpsMatched(v, text) ==
  IF v = "App" THEN FirstMatch(text, "StrictGps").ok
  ELSE \/ FirstMatch(text, "Lat").ok
       \/ FirstMatch(text, "Lng").ok
       \/ FirstMatch(text, "CommaGps").ok

FrameOfLine(v, text, before, after) ==
  /\ (SensorMatched(v, text) /\ ~GpsApplies(v, text)) =>
       after.gps = before.gps
  /\ (GpsMatched(v, text) /\ ~SensorMatched(v, text)) =>
       SameReadingsAndFlags(after, before)

\* the transport event handed exactly one line to the interpreter
OneLineEvent ==
  /\ lastEvent.src \in {"SERIAL", "BLE", "SIM"}
  /\ Len(AppliedLines(lastEvent)) = 1

C24_Frame ==
  /\ lastEvent.src \in {"SERIAL", "BLE", "SIM"} =>
       bikeState.isConnected = prevState.isConnected
  /\ OneLineEvent =>
       FrameOfLine(variant, TextOf(AppliedLines(lastEvent)[1]), prevState,
                   bikeState)

\* on a link that is up, a fix arrived after a reading had raised a danger
\* flag: the fix is in, the flag and the reading are still there
C24_Witness ==
  /\ OneLineEvent
  /\ bikeState.isConnected
  /\ GpsMatched(variant, TextOf(lastEvent.lines[1]))
  /\ bikeState.gps.lastUpdate = now
  /\ bikeState.leftDanger
  /\ bikeState.sensors[1].lastUpdate = now - 1

\* on a link that is up, a reading arrived after a fix: the fix is untouched
C24_WitnessSensor ==
  /\ OneLineEvent
  /\ bikeState.isConnected
  /\ SensorMatched(variant, TextOf(lastEvent.lines[1]))
  /\ bikeState.gps.lastUpdate = now - 1
  /\ bikeState.gps.valid
  /\ \E k \in 1..3 : bikeState.sensors[k].lastUpdate = now

(***************************************************************************)
(* C25  A valid fix is a numeric fix: in every state, gps.valid implies    *)
(* that gps.lat and gps.lng are numbers, whatever lines have arrived,      *)
(* those whose latitude or longitude capture is only '-' or '.' included.  *)
(***************************************************************************)
C25_ValidFixNumeric ==
  bikeState.gps.valid => ~bikeState.gps.lat.nan /\ ~bikeState.gps.lng.nan

(***************************************************************************)
(* C26  Telemetry is applied only while the link is reported up: in        *)
(* App.tsx, a notification that changes a reading, a flag or the fix       *)
(* arrives in a state where isConnected is true, for every interleaving of *)
(* pairing attempts, their failures, notifications and disconnections.     *)
(***************************************************************************)
TelemetryApplied ==
  /\ variant = "App"
  /\ lastEvent.src = "BLE"
  /\ \/ bikeState.gps # prevState.gps
     \/ ~SameReadingsAndFlags(bikeState, prevState)

C26_TelemetryOnlyWhileConnected == TelemetryApplied => prevState.isConnected

(***************************************************************************)
(* C27  Connecting and connected are exclusive phases: in part_000,        *)
(* isConnecting and bikeState.isConnected are never both true.             *)
(***************************************************************************)
C27_ConnectingExclusive ==
  variant = "Part000" => ~(isConnecting /\ bikeState.isConnected)

(***************************************************************************)
(* C28  A running simulation can be stopped: in part_000, in every state   *)
(* with isSimulating = true the control that invokes toggleSimulation is   *)
(* on the screen or the user can bring it there.  The control is the       *)
(* overlay's button, shown while permissionError is set, and the only      *)
(* assignment of a non-null permissionError is in the catch block of       *)
(* connectSerial: so either the overlay is shown, or a connectSerial is    *)
(* running, or the connect button can be clicked.                          *)
(***************************************************************************)
\* part_000 193, 213: the overlay and its "Run Virtual Simulator" button
StopControlShown == permissionError # NoError

\* part_000 118-158, 258: a connectSerial is running or can be started
SerialAttemptPossible ==
  \/ pc \in {"requestPort", "open", "read"}
  \/ ConnectEnabled

C28_SimulationStoppable ==
  (variant = "Part000" /\ isSimulating) =>
    (StopControlShown \/ SerialAttemptPossible)

====
